---- MODULE Spec2Model ----
(***************************************************************************)
(* The service registry of pkg/cluster/registry (real.go): one consistent  *)
(* hash ring per peer type plus the index address -> name -> Key, guarded  *)
(* by one sync.RWMutex.  The hash ring package (pkg/cluster/hashring) is   *)
(* modelled from its specification: a ring is the set of its virtual       *)
(* nodes, walked in ascending (hash, address) order.  On top of it the     *)
(* registry API of pkg/registry (api.go): the event adapter that turns     *)
(* membership events into registry calls, Run and Stop, and the status of  *)
(* GET /services.                                                          *)
(***************************************************************************)
EXTENDS Integers, Sequences, FiniteSets, TLC

(* ------------------------------ bounds --------------------------------- *)
\* virtual nodes per address (the replicationFactor given to New)
ReplicationFactor == 2
\* number of positions of the hash space (2^32 in the program)
HashSpace == 4
\* the injected hash functions are h_s, s \in 0..MaxSeed (see HashFns)
MaxSeed == 1
\* number of concurrent callers of the registry
NumCallers == 2
\* the longest list of members a membership event carries
MaxBatch == 2
\* the ticks of Run's ticker that are counted
MaxTicks == 2

\* the peer types (categories), addresses in string order, names and tags
Types == {"store", "worker"}
AddrList == <<"10.0.0.1:7000", "10.0.0.2:7000">>
Names == {"nodeA", "nodeB"}
TagSets == {"t1", "t2"}

Addresses == {AddrList[i] : i \in DOMAIN AddrList}
\* the rank of an address in string order
AddrOrd(a) == CHOOSE i \in DOMAIN AddrList : AddrList[i] = a

\* a Key: Name(), Type(), Address(), Tags(); nodeA comes with either tag
\* set, nodeB with the first
Key ==
  {k \in [name : Names, type : Types, address : Addresses, tags : TagSets] :
     k.name = "nodeB" => k.tags = "t1"}

VNodes == 0 .. (ReplicationFactor - 1)
EmptyMap == [x \in {} |-> x]

\* the hash functions a Registry may be built with: h_s hashes the address
\* combined with the virtual-node index; h_1 is collision free on the
\* modelled addresses when HashSpace allows, h_0 is constant, the others
\* collide across addresses
HashFn(s) ==
  [a \in Addresses, i \in VNodes |->
     (((AddrOrd(a) - 1) * ReplicationFactor + i) * s) % HashSpace]
HashFns == {HashFn(s) : s \in 0 .. MaxSeed}

VARIABLES
  hashRings,   \* real.hashRings: type -> ring, a ring being its set of virtual nodes
  keys,        \* real.keys: address -> name -> Key
  hashFn,      \* real.hashFn
  lastOp,      \* the operation that returned last ("New" after construction)
  lastKey,     \* its argument (for Info only the type counts)
  lastRes,     \* its boolean result
  lastInfo,    \* the Info value it returned (NotFound unless it was Info)
  addedTypes,  \* history: the types for which an Add has returned
  committed,   \* history: <<hashRings, keys>> when the last mutation returned
  mtx,         \* real.mtx: w, write locked; r, read locks held; pending, callers blocked
               \* in Lock; rwait, callers blocked in RLock
  pc,          \* per concurrent caller: where it is in its call
  call,        \* per concurrent caller: the operation it runs and its argument
  loc,         \* per concurrent caller: its locals res, hashes and the Info it returns
  seen,        \* history, per caller in Info: the committed states since its RLock
  live,        \* history: the (name, type, address) added and since neither evicted nor removed
  evh,         \* eventAdapter.HandleEvent: the event in hand and how far its batch is applied
  api,         \* API.Run and API.Stop: where each is, the stop channel, the handler registration
  http         \* API.handleServices: the last request and the status it was answered with

regVars == <<hashRings, keys, hashFn>>
seqVars == <<lastOp, lastKey, lastRes, lastInfo>>
concVars == <<mtx, pc, call, loc, seen>>
apiVars == <<evh, api, http>>
vars == <<hashRings, keys, hashFn, lastOp, lastKey, lastRes, lastInfo, addedTypes,
          committed, mtx, pc, call, loc, seen, live, evh, api, http>>

Callers == 1 .. NumCallers
Mutators == {"Add", "Remove", "Update"}

(* --------------------------- the hash ring ----------------------------- *)
\* hashring.New: a ring without nodes
HashringNew == {}

\* Contains: is the address a member, whatever its number of nodes
HashringContains(ring, addr) == \E n \in ring : n.addr = addr

\* the virtual nodes of an address: one per virtual index
HashringNodes(fn, addr) ==
  { [hash |-> fn[addr, i], addr |-> addr, vnode |-> i] : i \in VNodes }

\* Add: inserts the address's nodes unless it is a member already
HashringAdd(fn, ring, addr) ==
  IF HashringContains(ring, addr) THEN ring ELSE ring \cup HashringNodes(fn, addr)

\* Add's result: was the address new to the ring
HashringAddRes(ring, addr) == ~HashringContains(ring, addr)

\* Remove: deletes every node of the address
HashringRemove(ring, addr) == { n \in ring : n.addr # addr }

\* the ring's total order: hash, then address, then virtual index
NodeBefore(m, n) ==
  \/ m.hash < n.hash
  \/ m.hash = n.hash /\ AddrOrd(m.addr) < AddrOrd(n.addr)
  \/ m.hash = n.hash /\ m.addr = n.addr /\ m.vnode < n.vnode

RECURSIVE HashringWalk(_)
\* Walk: the nodes in ascending order, each exactly once
HashringWalk(ring) ==
  IF ring = {} THEN <<>>
  ELSE LET first == CHOOSE m \in ring : \A n \in ring \ {m} : NodeBefore(m, n)
       IN  <<first>> \o HashringWalk(ring \ {first})

(* ---------------------------- the registry ----------------------------- *)
\* Add, lines 31-34: the type's ring is created when missing
AddEnsureRing(rings, key) ==
  IF key.type \in DOMAIN rings THEN rings
  ELSE [t \in DOMAIN rings \cup {key.type} |->
          IF t = key.type THEN HashringNew ELSE rings[t]]

\* AddRing that leaves the ring alone when it has members already
AddRingFirstOnly(fn, rings, key) ==
  IF rings[key.type] = {} THEN [rings EXCEPT ![key.type] = HashringAdd(fn, @, key.address)]
  ELSE rings

\* Add, line 38: the address is added to the type's ring
AddRing(fn, rings, key) ==
  [rings EXCEPT ![key.type] = HashringAdd(fn, @, key.address)]

\* AddRes with the result fixed to true, as Remove's is
AddResAlways(rings, key) == TRUE

\* Add, line 38 and 45: the result is the ring's
AddRes(rings, key) == HashringAddRes(rings[key.type], key.address)

\* AddKeys that keeps the entry a name already has
AddKeysKeepFirst(ks, key) ==
  LET byName == IF key.address \in DOMAIN ks THEN ks[key.address] ELSE EmptyMap
  IN  [a \in DOMAIN ks \cup {key.address} |->
         IF a = key.address
         THEN [n \in DOMAIN byName \cup {key.name} |->
                 IF n \in DOMAIN byName THEN byName[n] ELSE key]
         ELSE ks[a]]

\* Add, lines 40-43: the key is stored under its address and name
AddKeys(ks, key) ==
  LET byName == IF key.address \in DOMAIN ks THEN ks[key.address] ELSE EmptyMap
  IN  [a \in DOMAIN ks \cup {key.address} |->
         IF a = key.address
         THEN [n \in DOMAIN byName \cup {key.name} |->
                 IF n = key.name THEN key ELSE byName[n]]
         ELSE ks[a]]

\* RemoveRing that spares an address other names are still indexed under
RemoveRingUnlessShared(rings, key) ==
  IF /\ key.type \in DOMAIN rings
     /\ ~(key.address \in DOMAIN keys /\ DOMAIN keys[key.address] \ {key.name} # {})
  THEN [rings EXCEPT ![key.type] = HashringRemove(@, key.address)]
  ELSE rings

\* RemoveRing that deletes a ring from the map when its last member leaves
RemoveRingDropEmpty(rings, key) ==
  IF key.type \in DOMAIN rings
  THEN IF HashringRemove(rings[key.type], key.address) = {}
       THEN [t \in DOMAIN rings \ {key.type} |-> rings[t]]
       ELSE [rings EXCEPT ![key.type] = HashringRemove(@, key.address)]
  ELSE rings

\* Remove, lines 56-58: the address leaves the type's ring, if there is one
RemoveRing(rings, key) ==
  IF key.type \in DOMAIN rings
  THEN [rings EXCEPT ![key.type] = HashringRemove(@, key.address)]
  ELSE rings

\* RemoveKeys that drops the address from the index with its last name
RemoveKeysDropEmpty(ks, key) ==
  IF key.address \in DOMAIN ks
  THEN IF DOMAIN ks[key.address] \ {key.name} = {}
       THEN [a \in DOMAIN ks \ {key.address} |-> ks[a]]
       ELSE [ks EXCEPT ![key.address] =
               [n \in DOMAIN @ \ {key.name} |-> @[n]]]
  ELSE ks


\* Remove, lines 59-61: the name is deleted under the address
RemoveKeys(ks, key) ==
  IF key.address \in DOMAIN ks
  THEN [ks EXCEPT ![key.address] =
          [n \in DOMAIN @ \ {key.name} |-> @[n]]]
  ELSE ks

\* RemoveRes that tells whether the address was a member of the ring
RemoveResExisted(rings, ks, key) ==
  key.type \in DOMAIN rings /\ HashringContains(rings[key.type], key.address)

\* Remove, line 62
RemoveRes(rings, ks, key) == TRUE

\* UpdateOk without the test of the ring
UpdateOkIndexOnly(rings, ks, key) ==
  /\ key.address \in DOMAIN ks
  /\ key.name \in DOMAIN ks[key.address]

\* Update, lines 73-84: the three early returns
UpdateOk(rings, ks, key) ==
  /\ key.type \in DOMAIN rings
  /\ HashringContains(rings[key.type], key.address)
  /\ key.address \in DOMAIN ks
  /\ key.name \in DOMAIN ks[key.address]

\* UpdateKeys without the early returns: the write of Add
UpdateKeysUnchecked(rings, ks, key) == AddKeys(ks, key)

\* Update, line 85
UpdateKeys(rings, ks, key) ==
  IF UpdateOk(rings, ks, key)
  THEN [ks EXCEPT ![key.address] = [@ EXCEPT ![key.name] = key]]
  ELSE ks

\* getKeysByAddress: the keys stored under an address, in no order
GetKeysByAddress(ks, addr) ==
  IF addr \in DOMAIN ks THEN {ks[addr][n] : n \in DOMAIN ks[addr]} ELSE {}

\* CollectHashes whose visitor ends the walk after the first node
CollectHashesFirst(walk, hashes) ==
  IF walk = <<>> THEN hashes
  ELSE [h \in DOMAIN hashes \cup {Head(walk).hash} |->
          IF h = Head(walk).hash THEN Head(walk).addr ELSE hashes[h]]

RECURSIVE CollectHashes(_, _)
\* Info, lines 99-102: the visitor stores hashes[hash] = addr at each node
\* of the walk, a later node with the same hash replacing an earlier one
CollectHashes(walk, hashes) ==
  IF walk = <<>> THEN hashes
  ELSE LET n == Head(walk)
       IN  CollectHashes(Tail(walk),
             [h \in DOMAIN hashes \cup {n.hash} |->
                IF h = n.hash THEN n.addr ELSE hashes[h]])

\* Info, lines 107-112: for each entry of hashes the keys of its address
\* are appended to keys[address]; the list is a bag, its order unspecified
CollectKeys(ks, hashes) ==
  LET addrs == {hashes[h] : h \in DOMAIN hashes}
      listed == {a \in addrs : GetKeysByAddress(ks, a) # {}}
  IN  [a \in listed |->
         [k \in GetKeysByAddress(ks, a) |->
            Cardinality({h \in DOMAIN hashes : hashes[h] = a})]]

NotFound == [found |-> FALSE, hashes |-> EmptyMap, keys |-> EmptyMap]

\* Info, lines 94-117
InfoOf(rings, ks, s) ==
  IF s \notin DOMAIN rings THEN NotFound
  ELSE LET hashes == CollectHashes(HashringWalk(rings[s]), EmptyMap)
       IN  [found |-> TRUE, hashes |-> hashes, keys |-> CollectKeys(ks, hashes)]

\* Info on the current state
Info(s) == InfoOf(hashRings, keys, s)

\* the argument recorded for Info(s): only its type counts
InfoArg(s) == [(CHOOSE k \in Key : TRUE) EXCEPT !.type = s]

\* the locals of a caller before it has computed anything
NoLocals == [res |-> FALSE, hashes |-> EmptyMap, info |-> NotFound]
NoCall == [op |-> "none", key |-> InfoArg(CHOOSE s \in Types : TRUE)]

(* ------------------- membership events and the API --------------------- *)
\* a members.Member: Name(), PeerType(), Address(), Tags(); the members
\* that events carry have one name, peer type and address, and either tag set
Member ==
  [name : {"nodeA"}, peerType : {"store"}, address : {AddrList[1]}, tags : TagSets]

\* NewMemberKey: the Key of a member, its Type() the member's peer type
NewMemberKey(m) ==
  [name |-> m.name, type |-> m.peerType, address |-> m.address, tags |-> m.tags]

\* membersToKeys: the keys of the members, in the order of the list
MembersToKeys(ms) == [j \in DOMAIN ms |-> NewMemberKey(ms[j])]

\* the member lists of events, up to MaxBatch members
Batches == UNION {[1 .. n -> Member] : n \in 0 .. MaxBatch}

\* event.Type() and MemberEvent.EventType
EventTypes == {"EventMember", "EventOther"}
EventKinds ==
  {"EventMemberJoined", "EventMemberLeft", "EventMemberUpdated", "EventMemberOther"}

\* the events delivered to the adapter; the kind of an event that is no
\* member event is never looked at
Events ==
  {e \in [type : EventTypes, kind : EventKinds, members : Batches] :
     e.type # "EventMember" => e.kind = "EventMemberOther"}

\* Dispatch that takes member-left for member-updated and back
DispatchSwapped(ev) ==
  IF ev.type # "EventMember" THEN "none"
  ELSE CASE ev.kind = "EventMemberJoined" -> "Add"
         [] ev.kind = "EventMemberLeft" -> "Update"
         [] ev.kind = "EventMemberUpdated" -> "Remove"
         [] OTHER -> "none"

\* HandleEvent, lines 221-240: the registry operation fn the event selects,
\* "none" when HandleEvent returns before the loop
Dispatch(ev) ==
  IF ev.type # "EventMember" THEN "none"
  ELSE CASE ev.kind = "EventMemberJoined" -> "Add"
         [] ev.kind = "EventMemberLeft" -> "Remove"
         [] ev.kind = "EventMemberUpdated" -> "Update"
         [] OTHER -> "none"

\* NextMember that ranges over the keys from the last to the first
NextMemberReversed(ks, i) == ks[Len(ks) - i]

\* HandleEvent, line 242: the range over keys, i calls having been made
NextMember(ks, i) == ks[i + 1]

\* no event has been delivered yet
NoEvent ==
  [pc |-> "none",
   ev |-> [type |-> "EventOther", kind |-> "EventMemberOther", members |-> <<>>],
   i |-> 0, pre |-> <<EmptyMap, EmptyMap>>, ret |-> "none"]

\* the goroutine that delivers the events
Handler == 1

\* GET /services: the Accept headers and the type parameters of requests
Accepts == {"", "application/json", "text/html"}
TypeTokens == {"", "store", "worker", "st ore"}

\* cluster.PeerTypeAny, the type of a request without type parameter
PeerTypeAny == "any"

\* cluster.ParsePeerType: the peer type a token names, or an error
ParsePeerType(tok) ==
  IF tok \in Types THEN [type |-> tok, err |-> FALSE]
  ELSE [type |-> PeerTypeAny, err |-> TRUE]

\* ServicesParams.DecodeFrom, lines 172-183
DecodeFrom(accept, tok) ==
  IF accept # "" /\ accept # "application/json"
  THEN [type |-> PeerTypeAny, err |-> TRUE]
  ELSE IF tok = "" THEN [type |-> PeerTypeAny, err |-> FALSE]
       ELSE ParsePeerType(tok)

\* what peer.Current answers: an error, or for some of the types a list of
\* addresses that may be empty
ServiceLists == {<<>>, <<AddrList[1]>>}
ServiceMaps == UNION {[D -> ServiceLists] : D \in SUBSET Types}
CurrentResults ==
  {[services |-> EmptyMap, err |-> TRUE]}
    \cup {[services |-> m, err |-> FALSE] : m \in ServiceMaps}

\* HandleServicesStatus that answers 404 only when the type has no list
HandleServicesStatusAbsentOnly(accept, tok, cur) ==
  LET params == DecodeFrom(accept, tok)
  IN  IF params.err THEN 400
      ELSE IF cur.err THEN 500
      ELSE IF params.type # PeerTypeAny /\ params.type \notin DOMAIN cur.services
      THEN 404
      ELSE 200

\* handleServices, lines 132-164: the status the request is answered with
HandleServicesStatus(accept, tok, cur) ==
  LET params == DecodeFrom(accept, tok)
  IN  IF params.err THEN 400
      ELSE IF cur.err THEN 500
      ELSE IF /\ params.type # PeerTypeAny
              /\ \/ params.type \notin DOMAIN cur.services
                 \/ Len(cur.services[params.type]) = 0
      THEN 404
      ELSE 200

\* no request has been answered yet
NoRequest ==
  [accept |-> "", type |-> "", current |-> [services |-> EmptyMap, err |-> FALSE],
   status |-> 0]

\* NewAPI: Run and Stop not yet called, the stop channel empty
NotRunning ==
  [run |-> "new", registered |-> FALSE, ret |-> "none", ticks |-> 0,
   stop |-> "new", closed |-> FALSE]

(* ---------------------------- operations ------------------------------- *)
\* New: empty maps, the injected hash function, the zero RWMutex
Init ==
  /\ hashRings = EmptyMap
  /\ keys = EmptyMap
  /\ hashFn \in HashFns
  /\ lastOp = "New"
  /\ lastKey = InfoArg(CHOOSE s \in Types : TRUE)
  /\ lastRes = TRUE
  /\ lastInfo = NotFound
  /\ addedTypes = {}
  /\ committed = <<EmptyMap, EmptyMap>>
  /\ mtx = [w |-> FALSE, r |-> 0, pending |-> {}, rwait |-> {}]
  /\ pc = [p \in Callers |-> "idle"]
  /\ call = [p \in Callers |-> NoCall]
  /\ loc = [p \in Callers |-> NoLocals]
  /\ seen = [p \in Callers |-> {}]
  /\ live = {}
  /\ evh = NoEvent
  /\ api = NotRunning
  /\ http = NoRequest

Add(key) ==
  /\ hashRings' = AddRing(hashFn, AddEnsureRing(hashRings, key), key)
  /\ keys' = AddKeys(keys, key)
  /\ lastOp' = "Add"
  /\ lastKey' = key
  /\ lastRes' = AddRes(AddEnsureRing(hashRings, key), key)
  /\ lastInfo' = NotFound
  /\ addedTypes' = addedTypes \cup {key.type}
  /\ committed' = <<hashRings', keys'>>
  /\ UNCHANGED <<apiVars, hashFn, concVars>>

Remove(key) ==
  /\ hashRings' = RemoveRing(hashRings, key)
  /\ keys' = RemoveKeys(keys, key)
  /\ lastOp' = "Remove"
  /\ lastKey' = key
  /\ lastRes' = RemoveRes(hashRings, keys, key)
  /\ lastInfo' = NotFound
  /\ committed' = <<hashRings', keys'>>
  /\ UNCHANGED <<apiVars, hashFn, addedTypes, concVars>>

Update(key) ==
  /\ keys' = UpdateKeys(hashRings, keys, key)
  /\ lastOp' = "Update"
  /\ lastKey' = key
  /\ lastRes' = UpdateOk(hashRings, keys, key)
  /\ lastInfo' = NotFound
  /\ UNCHANGED <<apiVars, hashRings, hashFn, addedTypes, concVars>>
  /\ committed' = <<hashRings', keys'>>

InfoCall(s) ==
  /\ lastOp' = "Info"
  /\ lastKey' = InfoArg(s)
  /\ lastInfo' = Info(s)
  /\ lastRes' = lastInfo'.found
  /\ UNCHANGED <<apiVars, hashRings, keys, hashFn, addedTypes, committed, concVars>>

Next ==
  \/ \E key \in Key : Add(key) /\ UNCHANGED live
  \/ \E key \in Key : Remove(key) /\ UNCHANGED live
  \/ \E key \in Key : Update(key) /\ UNCHANGED live
  \/ \E s \in Types : InfoCall(s) /\ UNCHANGED live

Spec == Init /\ [][Next]_vars


(* ----------------- the history of what has been added ------------------ *)
\* the keys of the calls whose history is kept: both names in both types,
\* at one address with one tag set
HistKeys == {k \in Key : k.address = AddrList[1] /\ k.tags = "t1"}

\* name, address and category of a key
Triple(key) == [name |-> key.name, type |-> key.type, address |-> key.address]

\* Add, and the key counted as added
HistAdd(key) ==
  /\ Add(key)
  /\ live' = live \cup {Triple(key)}

\* Remove, and no longer counted: what was added for the address in the
\* key's type (the address is evicted from that ring) and what was added
\* for the address under the key's name (the index entry is removed)
HistRemove(key) ==
  /\ Remove(key)
  /\ live' = {t \in live : ~(/\ t.address = key.address
                             /\ (t.type = key.type \/ t.name = key.name))}

HistUpdate(key) ==
  /\ Update(key)
  /\ UNCHANGED live

HistNext ==
  \/ \E key \in HistKeys : HistAdd(key)
  \/ \E key \in HistKeys : HistRemove(key)
  \/ \E key \in HistKeys : HistUpdate(key)

HistSpec == Init /\ [][HistNext]_vars

(* ------------------------- concurrent callers -------------------------- *)
\* the keys the concurrent callers pass: one name at one address with one
\* tag set, in every type
ConcKeys == {k \in Key : k.name = "nodeB" /\ k.address = AddrList[1]}

\* LockFree that ignores the readers, as if writers took a lock of their own
LockFreeOfWriters(m) == ~m.w

\* sync.RWMutex, Lock (lines 28, 49, 66): free when no one holds it
LockFree(m) == ~m.w /\ m.r = 0

\* RLockFree that lets readers in whatever the writers do
RLockFreeAlways(m) == TRUE

\* sync.RWMutex, RLock (line 91): free when no writer holds or awaits it
RLockFree(m) == ~m.w /\ m.pending = {}

\* where a caller holds the write lock, and where the read lock
WriteCS == {"ensure", "ringadd", "addkeys", "ringrm", "keysrm", "upd", "unlock"}
ReadCS == {"lookup", "walk", "collect", "runlock"}

\* the first step of each mutation once it holds the lock
Body(op) == CASE op = "Add" -> "ensure" [] op = "Remove" -> "ringrm" [] OTHER -> "upd"

\* a caller invokes Add, Remove or Update
CallMutate(p) ==
  /\ pc[p] = "idle"
  /\ \E op \in Mutators, key \in ConcKeys :
       call' = [call EXCEPT ![p] = [op |-> op, key |-> key]]
  /\ pc' = [pc EXCEPT ![p] = "lock"]
  /\ UNCHANGED <<live, apiVars, regVars, seqVars, addedTypes, committed, mtx, loc, seen>>

\* a caller invokes Info
CallInfo(p) ==
  /\ pc[p] = "idle"
  /\ \E s \in Types : call' = [call EXCEPT ![p] = [op |-> "Info", key |-> InfoArg(s)]]
  /\ pc' = [pc EXCEPT ![p] = "rlock"]
  /\ UNCHANGED <<live, apiVars, regVars, seqVars, addedTypes, committed, mtx, loc, seen>>

\* r.mtx.Lock(): taken when free, otherwise the caller waits as pending
Lock(p) ==
  /\ pc[p] = "lock"
  /\ IF LockFree(mtx)
     THEN /\ mtx' = [mtx EXCEPT !.w = TRUE, !.pending = @ \ {p}]
          /\ pc' = [pc EXCEPT ![p] = Body(call[p].op)]
     ELSE /\ mtx' = [mtx EXCEPT !.pending = @ \cup {p}]
          /\ UNCHANGED pc
  /\ UNCHANGED <<live, apiVars, regVars, seqVars, addedTypes, committed, call, loc, seen>>

\* Add, lines 31-34
AddEnsureStep(p) ==
  /\ pc[p] = "ensure"
  /\ hashRings' = AddEnsureRing(hashRings, call[p].key)
  /\ pc' = [pc EXCEPT ![p] = "ringadd"]
  /\ UNCHANGED <<live, apiVars, keys, hashFn, seqVars, addedTypes, committed, mtx, call, loc, seen>>

\* Add, lines 36-39
AddRingStep(p) ==
  /\ pc[p] = "ringadd"
  /\ loc' = [loc EXCEPT ![p].res = AddRes(hashRings, call[p].key)]
  /\ hashRings' = AddRing(hashFn, hashRings, call[p].key)
  /\ pc' = [pc EXCEPT ![p] = "addkeys"]
  /\ UNCHANGED <<live, apiVars, keys, hashFn, seqVars, addedTypes, committed, mtx, call, seen>>

\* Add, lines 40-43
AddKeysStep(p) ==
  /\ pc[p] = "addkeys"
  /\ keys' = AddKeys(keys, call[p].key)
  /\ pc' = [pc EXCEPT ![p] = "unlock"]
  /\ UNCHANGED <<live, apiVars, hashRings, hashFn, seqVars, addedTypes, committed, mtx, call, loc, seen>>

\* Remove, lines 56-58
RemoveRingStep(p) ==
  /\ pc[p] = "ringrm"
  /\ hashRings' = RemoveRing(hashRings, call[p].key)
  /\ pc' = [pc EXCEPT ![p] = "keysrm"]
  /\ UNCHANGED <<live, apiVars, keys, hashFn, seqVars, addedTypes, committed, mtx, call, loc, seen>>

\* Remove, lines 59-62
RemoveKeysStep(p) ==
  /\ pc[p] = "keysrm"
  /\ keys' = RemoveKeys(keys, call[p].key)
  /\ loc' = [loc EXCEPT ![p].res = RemoveRes(hashRings, keys, call[p].key)]
  /\ pc' = [pc EXCEPT ![p] = "unlock"]
  /\ UNCHANGED <<live, apiVars, hashRings, hashFn, seqVars, addedTypes, committed, mtx, call, seen>>

\* Update, lines 69-87
UpdateStep(p) ==
  /\ pc[p] = "upd"
  /\ loc' = [loc EXCEPT ![p].res = UpdateOk(hashRings, keys, call[p].key)]
  /\ keys' = UpdateKeys(hashRings, keys, call[p].key)
  /\ pc' = [pc EXCEPT ![p] = "unlock"]
  /\ UNCHANGED <<live, apiVars, hashRings, hashFn, seqVars, addedTypes, committed, mtx, call, seen>>

\* Unlocked run only on the path that reaches the last line of the operation
UnlockedAtEnd(m, res) ==
  IF res THEN [m EXCEPT !.w = FALSE, !.r = Cardinality(m.rwait), !.rwait = {}] ELSE m

\* sync.RWMutex, Unlock, deferred at lines 29, 50 and 67 and so run on every
\* return path whatever the result: the callers blocked in RLock get their
\* read locks before the next writer gets the lock
Unlocked(m, res) ==
  [m EXCEPT !.w = FALSE, !.r = Cardinality(m.rwait), !.rwait = {}]

\* the deferred r.mtx.Unlock() of Add, Remove and Update: the mutation is
\* complete and the caller has its result
Unlock(p) ==
  /\ pc[p] = "unlock"
  /\ mtx' = Unlocked(mtx, loc[p].res)
  /\ committed' = <<hashRings, keys>>
  /\ seen' = [q \in Callers |->
                IF q \in mtx.rwait \ mtx'.rwait THEN {committed'}
                ELSE IF pc[q] \in ReadCS THEN seen[q] \cup {committed'} ELSE seen[q]]
  /\ addedTypes' = IF call[p].op = "Add" THEN addedTypes \cup {call[p].key.type}
                   ELSE addedTypes
  /\ pc' = [q \in Callers |->
              IF q = p THEN "idle"
              ELSE IF q \in mtx.rwait \ mtx'.rwait THEN "lookup" ELSE pc[q]]
  /\ call' = [call EXCEPT ![p] = NoCall]
  /\ loc' = [loc EXCEPT ![p] = NoLocals]
  /\ UNCHANGED <<live, apiVars, regVars, seqVars>>

\* r.mtx.RLock(), line 91: taken when free, otherwise the caller waits
\* for the writer's Unlock
RLock(p) ==
  /\ pc[p] = "rlock"
  /\ IF RLockFree(mtx)
     THEN /\ mtx' = [mtx EXCEPT !.r = @ + 1, !.rwait = @ \ {p}]
          /\ seen' = [seen EXCEPT ![p] = {committed}]
          /\ pc' = [pc EXCEPT ![p] = "lookup"]
     ELSE /\ mtx' = [mtx EXCEPT !.rwait = @ \cup {p}]
          /\ UNCHANGED <<pc, seen>>
  /\ UNCHANGED <<live, apiVars, regVars, seqVars, addedTypes, committed, call, loc>>

\* Info, lines 94-97
InfoLookupStep(p) ==
  /\ pc[p] = "lookup"
  /\ IF call[p].key.type \in DOMAIN hashRings
     THEN /\ pc' = [pc EXCEPT ![p] = "walk"]
          /\ UNCHANGED loc
     ELSE /\ pc' = [pc EXCEPT ![p] = "runlock"]
          /\ loc' = [loc EXCEPT ![p].info = NotFound]
  /\ UNCHANGED <<live, apiVars, regVars, seqVars, addedTypes, committed, mtx, call, seen>>

\* Info, lines 99-105: the walk of the ring the type has now
InfoWalkStep(p) ==
  /\ pc[p] = "walk"
  /\ loc' = [loc EXCEPT ![p].hashes =
               CollectHashes(HashringWalk(hashRings[call[p].key.type]), EmptyMap)]
  /\ pc' = [pc EXCEPT ![p] = "collect"]
  /\ UNCHANGED <<live, apiVars, regVars, seqVars, addedTypes, committed, mtx, call, seen>>

\* Info, lines 107-117
InfoKeysStep(p) ==
  /\ pc[p] = "collect"
  /\ loc' = [loc EXCEPT ![p].info =
               [found |-> TRUE, hashes |-> loc[p].hashes,
                keys |-> CollectKeys(keys, loc[p].hashes)]]
  /\ pc' = [pc EXCEPT ![p] = "runlock"]
  /\ UNCHANGED <<live, apiVars, regVars, seqVars, addedTypes, committed, mtx, call, seen>>

\* the deferred r.mtx.RUnlock() of Info, line 92: the caller has loc.info
\* as its result
RUnlock(p) ==
  /\ pc[p] = "runlock"
  /\ mtx' = [mtx EXCEPT !.r = @ - 1]
  /\ pc' = [pc EXCEPT ![p] = "idle"]
  /\ call' = [call EXCEPT ![p] = NoCall]
  /\ loc' = [loc EXCEPT ![p] = NoLocals]
  /\ seen' = [seen EXCEPT ![p] = {}]
  /\ UNCHANGED <<live, apiVars, regVars, seqVars, addedTypes, committed>>

ConcNext ==
  \E p \in Callers :
    \/ CallMutate(p)
    \/ CallInfo(p)
    \/ Lock(p)
    \/ AddEnsureStep(p)
    \/ AddRingStep(p)
    \/ AddKeysStep(p)
    \/ RemoveRingStep(p)
    \/ RemoveKeysStep(p)
    \/ UpdateStep(p)
    \/ Unlock(p)
    \/ RLock(p)
    \/ InfoLookupStep(p)
    \/ InfoWalkStep(p)
    \/ InfoKeysStep(p)
    \/ RUnlock(p)

ConcSpec == Init /\ [][ConcNext]_vars


\* the scheduler runs every caller that can take a step; a caller blocked
\* in Lock gets the mutex after finitely many releases (sync.Mutex hands
\* it to the longest waiter in starvation mode)
ConcFairness ==
  \A p \in Callers :
    /\ WF_vars(AddEnsureStep(p))
    /\ WF_vars(AddRingStep(p))
    /\ WF_vars(AddKeysStep(p))
    /\ WF_vars(RemoveRingStep(p))
    /\ WF_vars(RemoveKeysStep(p))
    /\ WF_vars(UpdateStep(p))
    /\ WF_vars(Unlock(p))
    /\ WF_vars(RLock(p))
    /\ WF_vars(InfoLookupStep(p))
    /\ WF_vars(InfoWalkStep(p))
    /\ WF_vars(InfoKeysStep(p))
    /\ WF_vars(RUnlock(p))
    /\ WF_vars(Lock(p))
    /\ SF_vars(Lock(p) /\ LockFree(mtx))

FairConcSpec == Init /\ [][ConcNext]_vars /\ ConcFairness


(* ----------------------- the event adapter ----------------------------- *)
\* HandleEvent, lines 220-240: an event is delivered; without a registry
\* operation to apply HandleEvent returns nil at once
HandleEvent(ev) ==
  /\ evh.pc \in {"none", "done"}
  /\ pc[Handler] = "idle"
  /\ evh' = [pc |-> IF Dispatch(ev) = "none" THEN "done" ELSE "loop",
             ev |-> ev, i |-> 0, pre |-> <<hashRings, keys>>,
             ret |-> IF Dispatch(ev) = "none" THEN "nil" ELSE "none"]
  /\ UNCHANGED <<regVars, seqVars, addedTypes, committed, concVars, live, api, http>>

\* HandleEvent, lines 241-244: fn is called with the next key, the previous
\* call having returned; its result is dropped
HandleMember ==
  /\ evh.pc = "loop"
  /\ pc[Handler] = "idle"
  /\ evh.i < Len(evh.ev.members)
  /\ call' = [call EXCEPT ![Handler] =
                [op |-> Dispatch(evh.ev),
                 key |-> NextMember(MembersToKeys(evh.ev.members), evh.i)]]
  /\ pc' = [pc EXCEPT ![Handler] = "lock"]
  /\ evh' = [evh EXCEPT !.i = @ + 1]
  /\ UNCHANGED <<regVars, seqVars, addedTypes, committed, mtx, loc, seen, live, api, http>>

\* HandleEvent, line 246: the range is over, nil is returned
HandleReturn ==
  /\ evh.pc = "loop"
  /\ pc[Handler] = "idle"
  /\ evh.i = Len(evh.ev.members)
  /\ evh' = [evh EXCEPT !.pc = "done", !.ret = "nil"]
  /\ UNCHANGED <<regVars, seqVars, addedTypes, committed, concVars, live, api, http>>

\* the adapter applies events while the other callers run Info
EventNext ==
  \/ \E ev \in Events : HandleEvent(ev)
  \/ HandleMember
  \/ HandleReturn
  \/ \E p \in Callers \ {Handler} : CallInfo(p)
  \/ \E p \in Callers :
       \/ Lock(p)
       \/ AddEnsureStep(p)
       \/ AddRingStep(p)
       \/ AddKeysStep(p)
       \/ RemoveRingStep(p)
       \/ RemoveKeysStep(p)
       \/ UpdateStep(p)
       \/ Unlock(p)
       \/ RLock(p)
       \/ InfoLookupStep(p)
       \/ InfoWalkStep(p)
       \/ InfoKeysStep(p)
       \/ RUnlock(p)

EventSpec == Init /\ [][EventNext]_vars


(* ------------------------------ the API -------------------------------- *)
\* Run, lines 82-89: the adapter is registered with the peer, which may
\* fail; then the ticker is started
RunRegister ==
  /\ api.run = "new"
  /\ \E err \in BOOLEAN :
       api' = IF err THEN [api EXCEPT !.run = "returned", !.ret = "err"]
              ELSE [api EXCEPT !.run = "loop", !.registered = TRUE]
  /\ UNCHANGED <<regVars, seqVars, addedTypes, committed, concVars, live, evh, http>>

\* Run, lines 91-93: the select takes a tick and does nothing with it
Tick ==
  /\ api.run = "loop"
  /\ api.ticks < MaxTicks
  /\ api' = [api EXCEPT !.ticks = @ + 1]
  /\ UNCHANGED <<regVars, seqVars, addedTypes, committed, concVars, live, evh, http>>

\* Stop, lines 105-106: c is made and offered on the stop channel
StopCall ==
  /\ api.stop = "new"
  /\ api' = [api EXCEPT !.stop = "send"]
  /\ UNCHANGED <<regVars, seqVars, addedTypes, committed, concVars, live, evh, http>>

\* Run, lines 95-96: the select takes c from the stop channel and defers
\* close(c) to the return of Run; Stop goes on to wait for c (line 107)
RunRecvStop ==
  /\ api.run = "loop"
  /\ api.stop = "send"
  /\ api' = [api EXCEPT !.run = "deregister", !.stop = "wait"]
  /\ UNCHANGED <<regVars, seqVars, addedTypes, committed, concVars, live, evh, http>>

\* Run, lines 98-101: the adapter is deregistered; on an error Run returns
\* it and the deferred close(c) runs, otherwise the for loop goes on
RunDeregister ==
  /\ api.run = "deregister"
  /\ \E err \in BOOLEAN :
       api' = IF err
              THEN [api EXCEPT !.run = "returned", !.ret = "err", !.closed = TRUE]
              ELSE [api EXCEPT !.run = "loop", !.registered = FALSE]
  /\ UNCHANGED <<regVars, seqVars, addedTypes, committed, concVars, live, evh, http>>

\* Stop, lines 107-108: c is closed, Stop returns
StopReturn ==
  /\ api.stop = "wait"
  /\ api.closed
  /\ api' = [api EXCEPT !.stop = "returned"]
  /\ UNCHANGED <<regVars, seqVars, addedTypes, committed, concVars, live, evh, http>>

\* handleServices, lines 132-164: a request is answered
HandleServices ==
  /\ \E accept \in Accepts, tok \in TypeTokens, cur \in CurrentResults :
       http' = [accept |-> accept, type |-> tok, current |-> cur,
                status |-> HandleServicesStatus(accept, tok, cur)]
  /\ UNCHANGED <<regVars, seqVars, addedTypes, committed, concVars, live, evh, api>>

ApiNext ==
  \/ RunRegister
  \/ Tick
  \/ StopCall
  \/ RunRecvStop
  \/ RunDeregister
  \/ StopReturn
  \/ HandleServices

\* the goroutines of Run and of Stop are scheduled while they can step; the
\* select of Run takes an offered stop channel after finitely many ticks
ApiFairness ==
  /\ WF_vars(RunRecvStop)
  /\ WF_vars(RunDeregister)
  /\ WF_vars(StopReturn)

ApiSpec == Init /\ [][ApiNext]_vars /\ ApiFairness

(* ------------------------------ claims --------------------------------- *)
\* the addresses that are members of a ring
Members(ring) == {n.addr : n \in ring}
\* the addresses an Info value lists in its hashes
HashAddrs(info) == {info.hashes[h] : h \in DOMAIN info.hashes}
\* no two virtual nodes of the ring share a position
Distinct(ring) == \A m, n \in ring : m.hash = n.hash => m = n

\* Info(key.type) is found, lists key.address in its hashes and an entry
\* named key.name among the keys of key.address
RoundTrip(key) ==
  LET info == Info(key.type)
  IN  /\ info.found
      /\ key.address \in HashAddrs(info)
      /\ key.address \in DOMAIN info.keys
      /\ \E k \in DOMAIN info.keys[key.address] : k.name = key.name

\* C1 as stated (round trip): in the state right after Add(e) returned,
\* Info(e.type) is found, its hashes hold e.address as a value and its keys
\* for e.address hold an entry named e.name.
C1_RoundTrip == lastOp = "Add" => RoundTrip(lastKey)

\* C1 as amended: the round trip holds right after Add(e) when the hash
\* function gives the virtual nodes of e.type's ring distinct positions.
C1_RoundTripDistinct ==
  (lastOp = "Add" /\ Distinct(hashRings[lastKey.type])) => RoundTrip(lastKey)

\* C1's case: an Add of a second member of a ring of distinct positions
C1_Witness ==
  /\ lastOp = "Add"
  /\ lastRes
  /\ Distinct(hashRings[lastKey.type])
  /\ Cardinality(Members(hashRings[lastKey.type])) = 2

\* C2 (category isolation): a mutation whose key has type A leaves Info(B)
\* unchanged for every other type B.
C2_CategoryIsolation ==
  [][\A s \in Types :
       (lastOp' \in Mutators /\ lastKey'.type # s) => Info(s)' = Info(s)]_vars

\* C3 (full eviction on remove): in the state right after Remove(e)
\* returned, e.address is no member of e.type's ring and Info(e.type) lists
\* it neither in hashes nor in keys, whatever the index still holds for it.
C3_FullEviction ==
  lastOp = "Remove" =>
    LET info == Info(lastKey.type)
    IN  /\ lastKey.type \in DOMAIN hashRings =>
             ~HashringContains(hashRings[lastKey.type], lastKey.address)
        /\ lastKey.address \notin HashAddrs(info)
        /\ lastKey.address \notin DOMAIN info.keys

\* C3's case: a Remove has evicted an address for which the index still
\* holds an entry under another name
C3_Witness ==
  /\ lastOp = "Remove"
  /\ lastKey.type \in DOMAIN hashRings
  /\ lastKey.address \in DOMAIN keys
  /\ \E n \in DOMAIN keys[lastKey.address] :
       n # lastKey.name /\ keys[lastKey.address][n].type = lastKey.type

\* C4 (result of Add): Add(e) returns true exactly when e.address is no
\* member of e.type's ring when it is called (a missing ring has no
\* members); an Add directly after an Add of the same type and address
\* returns false and leaves every ring as it was.
C4_AddResult ==
  [][lastOp' = "Add" =>
       /\ lastRes' = ~(/\ lastKey'.type \in DOMAIN hashRings
                       /\ HashringContains(hashRings[lastKey'.type], lastKey'.address))
       /\ (/\ lastOp = "Add"
           /\ lastKey.type = lastKey'.type
           /\ lastKey.address = lastKey'.address)
          => (~lastRes' /\ hashRings' = hashRings)]_vars

\* C4's case: a second Add of an address returned false and the ring holds
\* the address's virtual nodes once
C4_Witness ==
  /\ lastOp = "Add"
  /\ ~lastRes
  /\ Cardinality({n \in hashRings[lastKey.type] : n.addr = lastKey.address})
       = ReplicationFactor

\* the preconditions of Update(key) in a registry state
UpdatePre(rings, ks, key) ==
  /\ key.type \in DOMAIN rings
  /\ HashringContains(rings[key.type], key.address)
  /\ key.address \in DOMAIN ks
  /\ key.name \in DOMAIN ks[key.address]

\* Info(key.type) of a registry state lists key itself under key.address
Reports(rings, ks, key) ==
  LET info == InfoOf(rings, ks, key.type)
  IN  key.address \in DOMAIN info.keys /\ key \in DOMAIN info.keys[key.address]

\* C5 as stated (Update): Update(e) returns true exactly when e.type has a
\* ring that contains e.address and the index holds an entry named e.name
\* under e.address; then the stored entry becomes e and Info(e.type)
\* reports e (with its tags) for that name under e.address.
C5_Update ==
  [][lastOp' = "Update" =>
       /\ lastRes' = UpdatePre(hashRings, keys, lastKey')
       /\ lastRes' =>
            /\ keys'[lastKey'.address][lastKey'.name] = lastKey'
            /\ Reports(hashRings', keys', lastKey')]_vars

\* C5 as amended: the same, Info(e.type) reporting e when the hash function
\* gives the virtual nodes of e.type's ring distinct positions.
C5_UpdateDistinct ==
  [][lastOp' = "Update" =>
       /\ lastRes' = UpdatePre(hashRings, keys, lastKey')
       /\ lastRes' =>
            /\ keys'[lastKey'.address][lastKey'.name] = lastKey'
            /\ Distinct(hashRings'[lastKey'.type]) =>
                 Reports(hashRings', keys', lastKey')]_vars

\* C5's case: an Update has replaced the tags stored for a name, in a ring
\* of distinct positions with two members
C5_Witness ==
  /\ lastOp = "Update"
  /\ lastRes
  /\ lastKey.tags = "t2"
  /\ keys[lastKey.address][lastKey.name] = lastKey
  /\ Distinct(hashRings[lastKey.type])
  /\ Cardinality(Members(hashRings[lastKey.type])) = 2

\* C6 (Update is membership-inert): Update changes neither the set of types
\* that have a ring nor the members of any ring; when it returns false the
\* rings and the index are what they were.
C6_UpdateInert ==
  [][lastOp' = "Update" =>
       /\ DOMAIN hashRings' = DOMAIN hashRings
       /\ \A s \in DOMAIN hashRings : Members(hashRings'[s]) = Members(hashRings[s])
       /\ ~lastRes' => (hashRings' = hashRings /\ keys' = keys)]_vars

\* C6's case: an Update returned false although the index holds entries
C6_Witness ==
  /\ lastOp = "Update"
  /\ ~lastRes
  /\ lastKey.address \in DOMAIN keys
  /\ keys[lastKey.address] # EmptyMap

\* C7 (Remove): Remove returns true whatever the state; it creates no ring;
\* and a second Remove(e) directly after it returns true and changes nothing.
C7_Remove ==
  [][lastOp' = "Remove" =>
       /\ lastRes'
       /\ DOMAIN hashRings' = DOMAIN hashRings
       /\ RemoveRes(hashRings', keys', lastKey')
       /\ RemoveRing(hashRings', lastKey') = hashRings'
       /\ RemoveKeys(keys', lastKey') = keys']_vars

\* C7's case: a Remove returned for a type that has no ring
C7_Witness ==
  /\ lastOp = "Remove"
  /\ lastRes
  /\ lastKey.type \notin DOMAIN hashRings
  /\ DOMAIN hashRings # {}

\* C8 (ring lifecycle): Info(s) is found exactly when an Add of type s has
\* returned, and a ring whose members were all removed is still found, with
\* empty hashes.
C8_InfoFound ==
  \A s \in Types :
    /\ Info(s).found <=> s \in addedTypes
    /\ (s \in DOMAIN hashRings /\ hashRings[s] = {}) =>
         (Info(s).found /\ Info(s).hashes = EmptyMap)

\* C8's case: the last member of a ring has been removed
C8_Witness ==
  /\ lastOp = "Remove"
  /\ lastKey.type \in addedTypes
  /\ hashRings[lastKey.type] = {}
  /\ Info(lastKey.type).found

\* the hashes of Info(s) hold N x R entries, R for each of the N members
\* of the ring of s
FullWalk(s) ==
  LET info == Info(s)
  IN  /\ Cardinality(DOMAIN info.hashes)
           = Cardinality(Members(hashRings[s])) * ReplicationFactor
      /\ \A a \in Members(hashRings[s]) :
           Cardinality({h \in DOMAIN info.hashes : info.hashes[h] = a})
             = ReplicationFactor

\* C9 as stated (ring cardinality): for every type with a ring and every
\* hash function, the hashes of Info hold N x R entries, R of them for each
\* of the ring's N members.
C9_RingCardinality == \A s \in DOMAIN hashRings : FullWalk(s)

\* C9 as amended: the same for every ring to whose virtual nodes the hash
\* function gives distinct positions.
C9_RingCardinalityDistinct ==
  \A s \in DOMAIN hashRings : Distinct(hashRings[s]) => FullWalk(s)

\* C9's case: after a Remove, a ring of distinct positions with one member
\* beside a ring with two
C9_Witness ==
  /\ lastOp = "Remove"
  /\ \E s, t \in DOMAIN hashRings :
       /\ Distinct(hashRings[s]) /\ Cardinality(Members(hashRings[s])) = 1
       /\ Distinct(hashRings[t]) /\ Cardinality(Members(hashRings[t])) = 2
       /\ Cardinality(DOMAIN Info(t).hashes) = 2 * ReplicationFactor

\* is the caller inside its critical section, and inside a writer's
InCS(p) == pc[p] \in WriteCS \cup ReadCS
InWriteCS(p) == pc[p] \in WriteCS

\* C10 (locking discipline): a caller inside the critical section of Add,
\* Remove or Update excludes every other caller from any critical section,
\* and the value an Info is about to return is Info of one state the
\* registry had between completed mutations.
C10_Locking ==
  /\ \A p, q \in Callers : (p # q /\ InWriteCS(p)) => ~InCS(q)
  /\ \A p \in Callers :
       pc[p] = "runlock" =>
         \E c \in seen[p] : loc[p].info = InfoOf(c[1], c[2], call[p].key.type)

\* C10's case: two Info calls overlap, one of them about to return a found
\* Info that lists keys
C10_Witness ==
  \E p, q \in Callers :
    /\ p # q
    /\ pc[p] = "runlock"
    /\ pc[q] \in ReadCS
    /\ loc[p].info.found
    /\ loc[p].info.keys # EmptyMap


\* C14 (ring-to-index invariant): for every type c and every address a that
\* is a member of the ring of c, the index has an entry set for a (possibly
\* an empty one); an indexed address need not be a member of any ring.
C14_RingToIndex ==
  \A c \in DOMAIN hashRings :
    \A a \in Members(hashRings[c]) : a \in DOMAIN keys

\* C14's case: after a Remove, a ring member whose entry set is empty, and
\* an indexed address that is a member of no ring
C14_Witness ==
  /\ lastOp = "Remove"
  /\ \E c \in DOMAIN hashRings :
       \E a \in Members(hashRings[c]) : a \in DOMAIN keys /\ keys[a] = EmptyMap
  /\ \E b \in DOMAIN keys :
       \A c \in DOMAIN hashRings : b \notin Members(hashRings[c])

\* the entries the index holds for an (address, name) pair: none or one
Entry(ks, a, n) ==
  IF a \in DOMAIN ks /\ n \in DOMAIN ks[a] THEN {ks[a][n]} ELSE {}

\* C16 (last write wins): every Add(e), also one that returns false, and
\* every Update(e) that returns true leaves e as the one entry of the pair
\* (e.address, e.name); a Remove(e) leaves the pair without entry; and no
\* operation changes what the index holds for any other pair.  So the index
\* holds per pair at most one entry, that of the pair's most recent Add or
\* successful Update not followed by a Remove of the pair.
C16_LastWriteWins ==
  [][\A a \in Addresses, n \in Names :
       Entry(keys', a, n) =
         IF a = lastKey'.address /\ n = lastKey'.name
            /\ (lastOp' = "Add" \/ (lastOp' = "Update" /\ lastRes'))
         THEN {lastKey'}
         ELSE IF a = lastKey'.address /\ n = lastKey'.name /\ lastOp' = "Remove"
              THEN {}
              ELSE Entry(keys, a, n)]_vars

\* C16's case: an Add that returned false has written its entry, beside
\* the entry of another name under the same address
C16_Witness ==
  /\ lastOp = "Add"
  /\ ~lastRes
  /\ lastKey.tags = "t2"
  /\ Entry(keys, lastKey.address, lastKey.name) = {lastKey}
  /\ \E n \in Names \ {lastKey.name} : Entry(keys, lastKey.address, n) # {}

\* C17 (keys of Info): for every type whose Info is found, an address is a
\* key of the Info's keys exactly when it is a value of its hashes and the
\* index holds entries for it, and then the keys list every entry of the
\* index for that address exactly once.
C17_KeysByAddress ==
  \A s \in Types :
    LET info == Info(s)
    IN  info.found =>
          /\ DOMAIN info.keys =
               {a \in HashAddrs(info) : GetKeysByAddress(keys, a) # {}}
          /\ \A a \in DOMAIN info.keys :
               /\ DOMAIN info.keys[a] = GetKeysByAddress(keys, a)
               /\ \A k \in DOMAIN info.keys[a] : info.keys[a][k] = 1

\* C18 (reported entries match the query): for every type c, each entry
\* that Info(c) lists under address a has Address() a and Type() c.
C18_EntriesMatchQuery ==
  \A c \in Types :
    LET info == Info(c)
    IN  \A a \in DOMAIN info.keys :
          \A k \in DOMAIN info.keys[a] : k.address = a /\ k.type = c


\* C11 (termination): under a fair scheduler every call of Add, Remove,
\* Update and Info by any of the concurrent callers returns, and when no
\* call is in progress the lock is released: no path keeps it.
C11_CallsReturn ==
  /\ \A p \in Callers : (pc[p] # "idle") ~> (pc[p] = "idle")
  /\ []((\A p \in Callers : pc[p] = "idle") =>
          (~mtx.w /\ mtx.r = 0 /\ mtx.pending = {} /\ mtx.rwait = {}))

\* C11's case: a caller blocked in Lock and a caller blocked in RLock
\* behind an Update that is about to return false
C11_Witness ==
  \E p, q \in Callers :
    /\ pc[p] = "unlock" /\ call[p].op = "Update" /\ ~loc[p].res
    /\ q # p
    /\ q \in mtx.pending \cup mtx.rwait


\* C19 (Update needs an earlier Add): Update(e) returns true only if an
\* Add with e's name, address and type has returned and no Remove has
\* since evicted the address from that type's ring or removed the name
\* under the address; so an Update of a name never added under its type
\* returns false.
C19_UpdateOnlyAdded ==
  (lastOp = "Update" /\ lastRes) => Triple(lastKey) \in live


\* the registry state <<rings, index>> after one call of an operation
ApplyOp(op, st, key) ==
  CASE op = "Add" ->
         <<AddRing(hashFn, AddEnsureRing(st[1], key), key), AddKeys(st[2], key)>>
    [] op = "Remove" -> <<RemoveRing(st[1], key), RemoveKeys(st[2], key)>>
    [] op = "Update" -> <<st[1], UpdateKeys(st[1], st[2], key)>>
    [] OTHER -> st

RECURSIVE ApplyBatch(_, _, _)
\* the registry state after the operation was called with each key of a
\* list, in list order
ApplyBatch(op, st, ks) ==
  IF ks = <<>> THEN st
  ELSE ApplyBatch(op, ApplyOp(op, st, Head(ks)), Tail(ks))

\* the operation an event stands for: Add for member-joined, Remove for
\* member-left, Update for member-updated, none for anything else
EventOp(ev) ==
  IF ev.type = "EventMember" /\ ev.kind = "EventMemberJoined" THEN "Add"
  ELSE IF ev.type = "EventMember" /\ ev.kind = "EventMemberLeft" THEN "Remove"
  ELSE IF ev.type = "EventMember" /\ ev.kind = "EventMemberUpdated" THEN "Update"
  ELSE "none"

\* a list from its last element to its first
Reverse(ks) == [j \in DOMAIN ks |-> ks[Len(ks) + 1 - j]]

\* C12 (event dispatch): when HandleEvent has returned, it has returned nil
\* and the registry is what Add (member-joined), Remove (member-left) or
\* Update (member-updated) called with each member of the batch in list
\* order makes of the state HandleEvent found; for every other event kind
\* or type it is that state unchanged.
C12_EventDispatch ==
  evh.pc = "done" =>
    /\ evh.ret = "nil"
    /\ <<hashRings, keys>> =
         ApplyBatch(EventOp(evh.ev), evh.pre, MembersToKeys(evh.ev.members))

\* C12's case: a member-joined batch of two members has been applied whose
\* second Add returned false, and the other order would have left another
\* state
C12_Witness ==
  /\ evh.pc = "done"
  /\ evh.ev.type = "EventMember"
  /\ evh.ev.kind = "EventMemberJoined"
  /\ Len(evh.ev.members) = 2
  /\ <<hashRings, keys>> #
       ApplyBatch("Add", evh.pre, Reverse(MembersToKeys(evh.ev.members)))

\* the registry state after the first i members of the event in hand
PrefixState(i) ==
  ApplyBatch(EventOp(evh.ev), evh.pre, SubSeq(MembersToKeys(evh.ev.members), 1, i))

\* C20 (batches are applied member by member): while HandleEvent applies a
\* batch and no one else mutates, the value an Info is about to return is
\* Info of the state after some prefix of the batch, in list order; when
\* HandleEvent has returned the state is that after the whole batch.
C20_PrefixStates ==
  /\ \A p \in Callers \ {Handler} :
       pc[p] = "runlock" =>
         \E i \in 0 .. Len(evh.ev.members) :
           loc[p].info = InfoOf(PrefixState(i)[1], PrefixState(i)[2], call[p].key.type)
  /\ evh.pc = "done" => <<hashRings, keys>> = PrefixState(Len(evh.ev.members))

\* C20's case: an Info is about to return the state after the first of two
\* members, which is neither the state before the batch nor the state
\* after it, while the call for the second member waits for the lock
C20_Witness ==
  \E p \in Callers \ {Handler} :
    /\ pc[p] = "runlock"
    /\ evh.pc = "loop"
    /\ Len(evh.ev.members) = 2
    /\ evh.i = 2
    /\ Handler \in mtx.pending
    /\ loc[p].info = InfoOf(PrefixState(1)[1], PrefixState(1)[2], call[p].key.type)
    /\ loc[p].info # InfoOf(PrefixState(0)[1], PrefixState(0)[2], call[p].key.type)
    /\ loc[p].info # InfoOf(PrefixState(2)[1], PrefixState(2)[2], call[p].key.type)


\* C13 (Stop returns): when Run has registered the adapter and is in its
\* loop, a call of Stop eventually returns, whether DeregisterEventHandler
\* succeeds or fails.
C13_StopReturns ==
  (api.run = "loop" /\ api.stop = "send") ~> (api.stop = "returned")

\* the parameters of the last request do not decode: an Accept header other
\* than application/json, or a type token that names no peer type
DecodeFails ==
  \/ http.accept \notin {"", "application/json"}
  \/ http.type \notin Types \cup {""}

\* the services peer.Current answered have no list for the requested type,
\* or an empty one
NoList ==
  \/ http.type \notin DOMAIN http.current.services
  \/ http.current.services[http.type] = <<>>

\* C15 as stated (status mapping): a request whose parameters fail to
\* decode is answered 400; a request for a specific type is answered 404
\* exactly when the current services have no list for it or an empty one,
\* and 200 otherwise; a request without type is never answered 404.
C15_StatusMapping ==
  http.status # 0 =>
    /\ DecodeFails => http.status = 400
    /\ (~DecodeFails /\ http.type \in Types) =>
         http.status = IF NoList THEN 404 ELSE 200
    /\ (~DecodeFails /\ http.type = "") => http.status # 404

\* C15 as amended: the same when peer.Current returns services; a request
\* that decodes is answered 500 when peer.Current returns an error.
C15_StatusMappingCurrent ==
  http.status # 0 =>
    /\ DecodeFails => http.status = 400
    /\ (~DecodeFails /\ http.current.err) => http.status = 500
    /\ (~DecodeFails /\ ~http.current.err /\ http.type \in Types) =>
         http.status = IF NoList THEN 404 ELSE 200
    /\ (~DecodeFails /\ http.type = "") => http.status # 404

\* C15's case: 404 for a type whose list is there and empty, while the
\* other type has addresses
C15_Witness ==
  /\ http.status = 404
  /\ http.type \in DOMAIN http.current.services
  /\ http.current.services[http.type] = <<>>
  /\ \E t \in DOMAIN http.current.services : http.current.services[t] # <<>>

====
